---- MODULE Spec2Model ----
(***************************************************************************)
(* Session-liveness tracker of app.py: the registry of browser sessions    *)
(* (active_connections, connection_last_ping, connection_lock), the        *)
(* monitor thread monitor_connections and the Dash callback                *)
(* handle_connection_status, run by concurrent request threads.            *)
(*                                                                         *)
(* Time is the reading of time.time(), in seconds.  The clock is sampled:  *)
(* it moves forward from one instant of Instants to any later one, so any  *)
(* amount of time may pass between two steps of any thread.                *)
(***************************************************************************)
EXTENDS Integers, FiniteSets, Sequences, TLC

\* ------------------------------------------------------------------------
\* Program constants
\* ------------------------------------------------------------------------
startup_grace_period == 60
connection_timeout == 300
sleep_seconds == 2

\* ------------------------------------------------------------------------
\* Bounds of the model
\* ------------------------------------------------------------------------
\* clock reading when the process starts (time.time() is never 0)
StartTime == 1
\* the clock is sampled at 0..Window sleep periods after each base instant
Window == 2
\* the monitor thread reads startup_time at most this long after the start
MaxStartDelay == 2

\* request threads of the server that can run the callback concurrently
Handlers == {"h1", "h2"}
\* connection ids the browser tabs generate
Ids == {"A", "B"}
\* a missing id (None or the empty string)
NoId == ""
\* the thread and the tab of the main specification
OneHandler == {"h1"}
OneId == {"A"}

Bases == {0, startup_grace_period, connection_timeout}
Instants == {StartTime + b + k * sleep_seconds : b \in Bases, k \in 0..Window}
MaxInstant == StartTime + connection_timeout + Window * sleep_seconds

Statuses == {"connected", "ping", "hidden", "disconnected", "other"}
\* the falsy callback argument (None or an empty dict)
EmptyData == [id |-> NoId, status |-> "none"]
Signals(ids) == [id : ids \cup {NoId}, status : Statuses]
NoData == [id |-> NoId, status |-> "idle"]

Max(a, b) == IF a > b THEN a ELSE b

\* a printed line: its text and the status and id it interpolates
Line(msg, status, id) == [msg |-> msg, status |-> status, id |-> id]

VARIABLES
    now,                  \* time.time()
    active_connections,   \* set of connection ids
    connection_last_ping, \* dict: connection id -> last ping time
    connection_lock,      \* "free", or held by the "monitor" or by a "handler"
    m_pc,                 \* position of the monitor thread
    startup_time,         \* monitor_connections local
    had_connections,      \* monitor_connections local
    current_time,         \* monitor_connections local
    sleep_left,           \* seconds until time.sleep(2) may return
    exits,                \* number of os._exit(0) calls
    h_pc,                 \* position of each request thread
    h_data,               \* handle_connection_status argument of each thread
    h_time,               \* handle_connection_status local current_time
    h_ret,                \* last value returned by each thread
    accept_time,          \* history: clock when the last upsert of an id was applied
    log                   \* last line printed

vars == <<now, active_connections, connection_last_ping, connection_lock, m_pc,
          startup_time, had_connections, current_time, sleep_left, exits,
          h_pc, h_data, h_time, h_ret, accept_time, log>>

registry == <<active_connections, connection_last_ping>>
monitor == <<m_pc, startup_time, had_connections, current_time, exits>>
handlers == <<h_pc, h_data, h_time, h_ret>>

\* ------------------------------------------------------------------------
\* Helpers
\* ------------------------------------------------------------------------
\* dict.get(key, default)
Get(d, k, default) == IF k \in DOMAIN d THEN d[k] ELSE default
\* d[key] = value
Put(d, k, v) == [x \in DOMAIN d \cup {k} |-> IF x = k THEN v ELSE d[x]]
\* variant: the last ping time of a closed connection is kept
PopNothing(d, k) == d

\* d.pop(key, None)
Pop(d, k) == [x \in DOMAIN d \ {k} |-> d[x]]
\* truthiness of connection_id
Truthy(id) == id # NoId

\* the process is alive: os._exit has not been called
Running == m_pc # "exited"

\* variant: the flag starts out set
InitialHadConnectionsSet == TRUE

\* line 81
InitialHadConnections == FALSE

\* variant: the grace period is as short as the sleep of the monitor
InGraceShort(t) == t - startup_time < sleep_seconds

\* variant: the `continue` of the grace period is never taken
InGraceNever(t) == FALSE

\* line 87: still inside the startup grace period at clock reading t
InGrace(t) == t - startup_time < startup_grace_period

\* variant: the last ping time is looked up under a key that is never stored
IsStaleNoEntry(conn_id, t) ==
    LET last_ping == Get(connection_last_ping, NoId, 0)
    IN  last_ping > 0 /\ t - last_ping > connection_timeout

\* lines 96-97: the staleness test of one tracked connection
IsStale(conn_id, t) ==
    LET last_ping == Get(connection_last_ping, conn_id, 0)
    IN  last_ping > 0 /\ t - last_ping > connection_timeout

\* lines 94-98
stale_connections(t) == {c \in active_connections : IsStale(c, t)}

\* variant: the flag mirrors the current occupancy
ObservedHadCurrent == active_connections # {}

\* lines 107-108: had_connections after the occupancy check
ObservedHad == IF active_connections # {} THEN TRUE ELSE had_connections

\* variant: an empty registry alone ends the process
ExitDecidedWhenEmpty == active_connections = {}

\* lines 107, 109: the occupancy check takes the branch of os._exit
ExitDecided == active_connections = {} /\ had_connections

\* variant: the block is entered without waiting for the lock
LockIgnored == TRUE

\* `with connection_lock:` can be entered
LockFree == connection_lock = "free"

\* variant: a hidden tab is treated as a closed one
BranchHiddenCloses(data) ==
    IF data.status = "connected" /\ Truthy(data.id) THEN "connected"
    ELSE IF data.status \in {"disconnected", "hidden"} /\ data.id \in active_connections
         THEN "disconnected"
    ELSE IF data.status = "ping" /\ Truthy(data.id) THEN "ping"
    ELSE "unhandled"

\* variant: a ping refreshes only an id the registry tracks
BranchPingKnownOnly(data) ==
    IF data.status = "connected" /\ Truthy(data.id) THEN "connected"
    ELSE IF data.status = "disconnected" /\ data.id \in active_connections
         THEN "disconnected"
    ELSE IF data.status = "ping" /\ data.id \in active_connections THEN "ping"
    ELSE IF data.status = "hidden" /\ Truthy(data.id) THEN "hidden"
    ELSE "unhandled"

\* variant: the ping branch does not test the status
BranchPingAnyStatus(data) ==
    IF data.status = "connected" /\ Truthy(data.id) THEN "connected"
    ELSE IF data.status = "disconnected" /\ data.id \in active_connections
         THEN "disconnected"
    ELSE IF Truthy(data.id) THEN "ping"
    ELSE "unhandled"

\* variant: the connected branch does not test the id
BranchConnectedAnyId(data) ==
    IF data.status = "connected" THEN "connected"
    ELSE IF data.status = "disconnected" /\ data.id \in active_connections
         THEN "disconnected"
    ELSE IF data.status = "ping" /\ Truthy(data.id) THEN "ping"
    ELSE IF data.status = "hidden" /\ Truthy(data.id) THEN "hidden"
    ELSE "unhandled"

\* lines 344-368: the branch of the if/elif chain taken for the argument
Branch(data) ==
    IF data.status = "connected" /\ Truthy(data.id) THEN "connected"
    ELSE IF data.status = "disconnected" /\ data.id \in active_connections
         THEN "disconnected"
    ELSE IF data.status = "ping" /\ Truthy(data.id) THEN "ping"
    ELSE IF data.status = "hidden" /\ Truthy(data.id) THEN "hidden"
    ELSE "unhandled"

\* ------------------------------------------------------------------------
\* Initial state: the module has been imported, the monitor thread created
\* ------------------------------------------------------------------------
Init ==
    /\ now = StartTime
    /\ active_connections = {}
    /\ connection_last_ping = <<>>
    /\ connection_lock = "free"
    /\ m_pc = "init"
    /\ startup_time = 0
    /\ had_connections = InitialHadConnections
    /\ current_time = 0
    /\ sleep_left = 0
    /\ exits = 0
    /\ h_pc = [h \in Handlers |-> "idle"]
    /\ h_data = [h \in Handlers |-> NoData]
    /\ h_time = [h \in Handlers |-> 0]
    /\ h_ret = [h \in Handlers |-> "none"]
    /\ accept_time = [i \in Ids |-> 0]
    /\ log = Line("none", "-", NoId)

\* ------------------------------------------------------------------------
\* The clock
\* ------------------------------------------------------------------------
Tick(t) ==
    /\ Running
    /\ t \in Instants
    /\ t > now
    /\ m_pc = "init" => t <= StartTime + MaxStartDelay
    /\ now' = t
    /\ sleep_left' = Max(0, sleep_left - (t - now))
    /\ UNCHANGED <<registry, connection_lock, monitor, handlers, accept_time, log>>

\* Past the last sampled instant the clock reading stays at MaxInstant while
\* time goes on, so a sleeping monitor still wakes up.
TickLast ==
    /\ Running
    /\ now = MaxInstant
    /\ sleep_left > 0
    /\ sleep_left' = 0
    /\ UNCHANGED <<now, registry, connection_lock, monitor, handlers, accept_time, log>>

\* ------------------------------------------------------------------------
\* monitor_connections
\* ------------------------------------------------------------------------
\* lines 77-84: read startup_time, clear had_connections, go to sleep
MonitorStart ==
    /\ m_pc = "init"
    /\ startup_time' = now
    /\ had_connections' = InitialHadConnections
    /\ m_pc' = "sleep"
    /\ sleep_left' = sleep_seconds
    /\ UNCHANGED <<now, registry, connection_lock, current_time, exits,
                   handlers, accept_time, log>>

\* lines 84-90: sleep returns; skip the iteration in the grace period,
\* otherwise read current_time
MonitorWake ==
    /\ m_pc = "sleep"
    /\ sleep_left = 0
    /\ IF InGrace(now)
       THEN /\ sleep_left' = sleep_seconds
            /\ UNCHANGED <<m_pc, current_time>>
       ELSE /\ current_time' = now
            /\ m_pc' = "acquire"
            /\ UNCHANGED sleep_left
    /\ UNCHANGED <<now, registry, connection_lock, startup_time, had_connections,
                   exits, handlers, accept_time, log>>

\* lines 92-104: take the lock, collect and remove the stale connections
MonitorSweep ==
    /\ m_pc = "acquire"
    /\ LockFree
    /\ connection_lock' = "monitor"
    /\ LET stale == stale_connections(current_time)
       IN  /\ active_connections' = active_connections \ stale
           /\ connection_last_ping' =
                 [x \in DOMAIN connection_last_ping \ stale |-> connection_last_ping[x]]
           /\ IF stale = {} THEN UNCHANGED log
              ELSE \E c \in stale : log' = Line("Removed stale connection", "-", c)
    /\ m_pc' = "check"
    /\ UNCHANGED <<now, startup_time, had_connections, current_time, sleep_left,
                   exits, handlers, accept_time>>

\* lines 107-110: the occupancy check, still under the lock
MonitorCheck ==
    /\ m_pc = "check"
    /\ had_connections' = ObservedHad
    /\ IF ExitDecided
       THEN /\ log' = Line("All connections closed", "-", NoId)
            /\ m_pc' = "exit"
            /\ UNCHANGED <<connection_lock, sleep_left>>
       ELSE /\ connection_lock' = "free"
            /\ m_pc' = "sleep"
            /\ sleep_left' = sleep_seconds
            /\ UNCHANGED log
    /\ current_time' = IF m_pc' = "sleep" THEN 0 ELSE current_time
    /\ UNCHANGED <<now, registry, startup_time, exits, handlers, accept_time>>

\* line 111: os._exit(0), the lock is never released
MonitorExit ==
    /\ m_pc = "exit"
    /\ exits' = exits + 1
    /\ m_pc' = "exited"
    /\ UNCHANGED <<now, registry, connection_lock, startup_time, had_connections,
                   current_time, sleep_left, handlers, accept_time, log>>

\* ------------------------------------------------------------------------
\* handle_connection_status
\* ------------------------------------------------------------------------
\* lines 330-341: the callback is invoked; falsy data returns at once,
\* otherwise the id, the status and the clock are read
HandlerReceive(h, data) ==
    /\ Running
    /\ h_pc[h] = "idle"
    /\ IF data = EmptyData
       THEN /\ h_ret' = [h_ret EXCEPT ![h] = "no_update"]
            /\ log' = Line("Warning: Received empty data", "-", NoId)
            /\ UNCHANGED <<h_pc, h_data, h_time>>
       ELSE /\ h_data' = [h_data EXCEPT ![h] = data]
            /\ h_time' = [h_time EXCEPT ![h] = now]
            /\ h_pc' = [h_pc EXCEPT ![h] = "wait"]
            /\ log' = Line("Connection status update received", data.status, data.id)
            /\ UNCHANGED h_ret
    /\ UNCHANGED <<now, registry, connection_lock, monitor, sleep_left, accept_time>>

\* line 343: enter `with connection_lock:`
HandlerAcquire(h) ==
    /\ Running
    /\ h_pc[h] = "wait"
    /\ LockFree
    /\ connection_lock' = "handler"
    /\ h_pc' = [h_pc EXCEPT ![h] = "locked"]
    /\ UNCHANGED <<now, registry, monitor, sleep_left, h_data, h_time, h_ret,
                   accept_time, log>>

\* lines 344-370: the if/elif chain, release of the lock and return
HandlerApply(h) ==
    /\ Running
    /\ h_pc[h] = "locked"
    /\ LET data == h_data[h]
           id == data.id
           b == Branch(data)
       IN  /\ CASE b = "connected" ->
                     /\ active_connections' = active_connections \cup {id}
                     /\ connection_last_ping' = Put(connection_last_ping, id, h_time[h])
                     /\ log' = Line("New connection", "-", id)
                [] b = "disconnected" ->
                     /\ active_connections' = active_connections \ {id}
                     /\ connection_last_ping' = Pop(connection_last_ping, id)
                     /\ log' = Line("Connection closed", "-", id)
                [] b = "ping" ->
                     /\ connection_last_ping' = Put(connection_last_ping, id, h_time[h])
                     /\ active_connections' = active_connections \cup {id}
                     /\ log' = IF id \notin active_connections
                               THEN Line("Reconnected via ping", "-", id) ELSE log
                [] b = "hidden" ->
                     /\ connection_last_ping' = Put(connection_last_ping, id, h_time[h])
                     /\ active_connections' = active_connections \cup {id}
                     /\ log' = Line("Connection hidden", "-", id)
                [] OTHER ->
                     /\ UNCHANGED registry
                     /\ log' = Line("Unhandled connection status", data.status, id)
           /\ accept_time' = IF b \in {"connected", "ping", "hidden"} /\ id \in Ids
                             THEN [accept_time EXCEPT ![id] = now]
                             ELSE accept_time
    /\ connection_lock' = "free"
    /\ h_pc' = [h_pc EXCEPT ![h] = "idle"]
    /\ h_data' = [h_data EXCEPT ![h] = NoData]
    /\ h_time' = [h_time EXCEPT ![h] = 0]
    /\ h_ret' = [h_ret EXCEPT ![h] = "no_update"]
    /\ UNCHANGED <<now, monitor, sleep_left>>

\* ------------------------------------------------------------------------
\* Specification
\* ------------------------------------------------------------------------
Next ==
    \/ \E t \in Instants : Tick(t)
    \/ MonitorStart
    \/ MonitorWake
    \/ MonitorSweep
    \/ MonitorCheck
    \/ MonitorExit
    \/ \E h \in OneHandler, data \in Signals(OneId) \cup {EmptyData} :
          HandlerReceive(h, data)
    \/ \E h \in OneHandler : HandlerAcquire(h)
    \/ \E h \in OneHandler : HandlerApply(h)

Spec == Init /\ [][Next]_vars

\* Signals stop arriving: the callback is invoked only so early that every
\* timestamp it reads is stale at MaxInstant.
SignalsArrive == now + connection_timeout < MaxInstant

MonitorStep ==
    \/ MonitorStart
    \/ MonitorWake
    \/ MonitorSweep
    \/ MonitorCheck
    \/ MonitorExit

ClockStep ==
    \/ \E t \in Instants : Tick(t)
    \/ TickLast

HandlerStep(h) ==
    \/ HandlerAcquire(h)
    \/ HandlerApply(h)

\* every signal kind arrives, until signals stop
NextLive ==
    \/ ClockStep
    \/ MonitorStep
    \/ \E h \in OneHandler, data \in Signals(OneId) \cup {EmptyData} :
          SignalsArrive /\ HandlerReceive(h, data)
    \/ \E h \in OneHandler : HandlerStep(h)

\* no tab ever delivers a disconnected signal, and signals stop
NextQuiet ==
    \/ ClockStep
    \/ MonitorStep
    \/ \E h \in OneHandler, data \in Signals(OneId) \cup {EmptyData} :
          /\ SignalsArrive
          /\ data.status # "disconnected"
          /\ HandlerReceive(h, data)
    \/ \E h \in OneHandler : HandlerStep(h)

\* threads that can run do run, and time goes on
Fairness ==
    /\ WF_vars(ClockStep)
    /\ WF_vars(MonitorStep)
    /\ \A h \in OneHandler : WF_vars(HandlerStep(h))

\* The startup grace period, counted from the start of the process, is not over
GraceOpen == now - StartTime < startup_grace_period

\* every signal is handled within the startup grace period: the callback is
\* invoked and enters the lock only while the grace period is open
NextEarly ==
    \/ \E t \in Instants : Tick(t)
    \/ MonitorStep
    \/ \E h \in OneHandler, data \in Signals(OneId) \cup {EmptyData} :
          GraceOpen /\ HandlerReceive(h, data)
    \/ \E h \in OneHandler : GraceOpen /\ HandlerAcquire(h)
    \/ \E h \in OneHandler : HandlerApply(h)

\* two request threads handle connected and ping signals of one tab
RaceSignals == [id : OneId, status : {"connected", "ping"}]

NextRace ==
    \/ \E t \in Instants : Tick(t)
    \/ MonitorStep
    \/ \E h \in Handlers, data \in RaceSignals : HandlerReceive(h, data)
    \/ \E h \in Handlers : HandlerAcquire(h)
    \/ \E h \in Handlers : HandlerApply(h)

\* two tabs open and close
PairSignals == [id : Ids, status : {"connected", "disconnected"}]

NextPair ==
    \/ \E t \in Instants : Tick(t)
    \/ MonitorStep
    \/ \E h \in OneHandler, data \in PairSignals : HandlerReceive(h, data)
    \/ \E h \in OneHandler : HandlerAcquire(h)
    \/ \E h \in OneHandler : HandlerApply(h)

SpecPair == Init /\ [][NextPair]_vars
SpecRace == Init /\ [][NextRace]_vars
SpecEarly == Init /\ [][NextEarly]_vars
SpecQuiet == Init /\ [][NextQuiet]_vars
FairQuiet == SpecQuiet /\ Fairness
FairSpec == Init /\ [][NextLive]_vars /\ Fairness

\* ------------------------------------------------------------------------
\* Properties
\* ------------------------------------------------------------------------
Upserts == {"connected", "ping", "hidden"}
KnownStatuses == Upserts \cup {"disconnected"}
EverAccepted == {i \in Ids : accept_time[i] > 0}
Terminated == m_pc = "exited"
\* thread h completes handle_connection_status in this step
Applies(h) == h_pc[h] = "locked" /\ h_pc'[h] = "idle"

\* C1: os._exit is never reached while less than the startup grace period
\* has elapsed since the process started.
C1_NoExitInGrace ==
    m_pc \in {"exit", "exited"} => now - StartTime >= startup_grace_period

\* the process exited although a session had been accepted during the grace period
C1_Witness ==
    /\ Terminated
    /\ accept_time["A"] > 0
    /\ accept_time["A"] - StartTime < startup_grace_period

\* C2: from the occupancy check that decides to exit until the exit itself
\* the registry is empty, had_connections is set and the grace period is
\* over, whatever the request threads do meanwhile.
C2_ExitOnlyWhenEmpty ==
    m_pc \in {"exit", "exited"} =>
        /\ active_connections = {}
        /\ had_connections
        /\ now - startup_time >= startup_grace_period

\* the process exited while a request thread was waiting for the lock to
\* register a connection
C2_Witness ==
    /\ Terminated
    /\ \E h \in Handlers : h_pc[h] = "wait" /\ Branch(h_data[h]) = "connected"

\* C3: the process never exits unless some connected, ping or hidden signal
\* with an id has been applied to the registry.
C3_NoExitWithoutSession ==
    exits > 0 => EverAccepted # {}

\* the occupancy check runs on an empty registry long after the grace
\* period, no session ever having been accepted
C3_Witness ==
    /\ m_pc = "check"
    /\ EverAccepted = {}
    /\ active_connections = {}
    /\ now = MaxInstant

\* C9: an upsert for an id already tracked leaves the set of tracked ids
\* unchanged, every upsert leaves exactly one entry for its id, and a
\* disconnected signal for an id that is not tracked changes neither the
\* tracked ids nor any last ping time.
C9_Idempotent ==
    [][\A h \in Handlers : Applies(h) =>
         LET d == h_data[h]
         IN  /\ (d.status \in Upserts /\ d.id \in active_connections)
                   => active_connections' = active_connections
             /\ (d.status \in Upserts /\ Truthy(d.id))
                   => /\ active_connections' = active_connections \cup {d.id}
                      /\ DOMAIN connection_last_ping' =
                            DOMAIN connection_last_ping \cup {d.id}
             /\ (d.status = "disconnected" /\ d.id \notin active_connections)
                   => UNCHANGED registry]_vars

\* a disconnected signal for the untracked id A has been handled while no
\* session was tracked
C9_Witness ==
    /\ log = Line("Unhandled connection status", "disconnected", "A")
    /\ EverAccepted # {}
    /\ active_connections = {}

\* C10: a signal without an id or with an unknown status, and a falsy
\* argument, change neither the registry nor had_connections nor the
\* position of the monitor, and the callback returns no_update.
C10_MalformedIgnored ==
    [][/\ \A h \in Handlers : Applies(h) =>
            LET d == h_data[h]
            IN  (~Truthy(d.id) \/ d.status \notin KnownStatuses)
                  => /\ UNCHANGED <<registry, had_connections, m_pc, exits>>
                     /\ h_ret'[h] = "no_update"
       /\ (log' # log /\ log'.msg = "Warning: Received empty data")
            => /\ UNCHANGED <<registry, had_connections, m_pc, exits, h_pc>>
               /\ \E h \in Handlers : h_ret'[h] = "no_update"]_vars

\* a signal with a known status and no id has been handled while a session
\* was tracked
C10_Witness ==
    /\ log = Line("Unhandled connection status", "connected", NoId)
    /\ active_connections # {}
    /\ h_ret["h1"] = "no_update"

\* C4: every occupancy check that finds the registry emptied by a
\* disconnected signal, after a session was accepted once the grace period
\* was over, decides to exit, and the process exits at most once.
C4_DrainedExits ==
    [][(/\ m_pc = "check"
        /\ m_pc' # "check"
        /\ active_connections = {}
        /\ log.msg = "Connection closed"
        /\ \E i \in Ids : /\ accept_time[i] > 0
                           /\ accept_time[i] - startup_time >= startup_grace_period)
         => (m_pc' = "exit" /\ exits = 0)]_vars

\* C5: when no disconnected signal is ever delivered and signals stop, a
\* process that accepted a session eventually exits.
C5_SilentEventuallyExits ==
    (EverAccepted # {}) ~> Terminated

\* C6: when no disconnected signal is ever delivered, the process decides to
\* exit only if every accepted session had its last signal accepted more
\* than connection_timeout ago.
C6_FreshSessionKeepsAlive ==
    m_pc \in {"exit", "exited"} =>
        \A i \in EverAccepted : now - accept_time[i] > connection_timeout

\* C7: a sweep removes an id only if no signal was accepted for it in the
\* preceding connection_timeout seconds.
C7_NoFreshEviction ==
    [][(m_pc = "acquire" /\ m_pc' = "check") =>
         \A i \in active_connections \ active_connections' :
             now - accept_time[i] > connection_timeout]_vars

C12_HadMonotonic ==
    [][had_connections => had_connections']_vars

\* the flag is set, the registry is empty again and the monitor has been
\* through the occupancy check that found it empty
C12_Witness ==
    /\ had_connections
    /\ active_connections = {}
    /\ m_pc \in {"exit", "exited"}

\* C13: the last ping time stored for an id never decreases while the id
\* stays in the registry.
C13_LastSeenForward ==
    [][\A i \in DOMAIN connection_last_ping \cap DOMAIN connection_last_ping' :
         connection_last_ping'[i] >= connection_last_ping[i]]_vars

\* C14: had_connections is true in every state in which some connected,
\* ping or hidden signal has been applied to the registry.
C14_HadSetByUpsert ==
    EverAccepted # {} => had_connections

C16_TerminatedOnce ==
    [][/\ exits' <= 1
       /\ m_pc \in {"exit", "exited"}
            => /\ UNCHANGED <<registry, had_connections>>
               /\ m_pc' \in {m_pc, "exited"}
       /\ Terminated => UNCHANGED <<m_pc, exits, h_pc, connection_lock>>]_vars

\* the process exited once after both tabs had been tracked, while a signal
\* was waiting for the lock
C16_Witness ==
    /\ Terminated /\ exits = 1 /\ active_connections = {}
    /\ \A i \in Ids : accept_time[i] > 0
    /\ \E h \in OneHandler : h_pc[h] = "wait" /\ h_data[h].status = "connected"

\* C17: a hidden signal and a ping signal with an id have the same effect:
\* the id is in the registry afterwards with the time the callback read as
\* its last ping time, and nothing is removed; a sweep removes exactly the
\* ids whose last ping time is more than connection_timeout before the
\* sweep's current_time, whatever signal stored it.
C17_HiddenLikePing ==
    [][/\ \A h \in Handlers :
            (Applies(h) /\ h_data[h].status \in {"hidden", "ping"}
                        /\ Truthy(h_data[h].id))
              => /\ active_connections' = active_connections \cup {h_data[h].id}
                 /\ connection_last_ping' =
                       Put(connection_last_ping, h_data[h].id, h_time[h])
       /\ (m_pc = "acquire" /\ m_pc' = "check")
            => /\ active_connections' =
                    {i \in active_connections :
                       ~(current_time - Get(connection_last_ping, i, 0)
                           > connection_timeout)}
               /\ DOMAIN connection_last_ping' = active_connections']_vars

\* the last line printed is the hidden signal of A, so that hidden is the
\* last signal of A, and the sweep that is about to run finds A stale
C17_Witness ==
    /\ log = Line("Connection hidden", "-", "A")
    /\ m_pc = "acquire" /\ connection_lock = "free"
    /\ stale_connections(current_time) = {"A"}

\* C18: a ping for an id that the registry does not track puts the id into
\* the registry with the time the callback read as its last ping time, and
\* an id leaves the registry only by a disconnected signal for it or by a
\* sweep that finds it stale.
C18_PingReinserts ==
    [][/\ \A h \in Handlers :
            (Applies(h) /\ h_data[h].status = "ping" /\ Truthy(h_data[h].id)
                        /\ h_data[h].id \notin active_connections)
              => /\ h_data[h].id \in active_connections'
                 /\ h_data[h].id \in DOMAIN connection_last_ping'
                 /\ connection_last_ping'[h_data[h].id] = h_time[h]
       /\ \A i \in active_connections \ active_connections' :
            \/ \E h \in Handlers :
                  Applies(h) /\ h_data[h] = [id |-> i, status |-> "disconnected"]
            \/ /\ m_pc = "acquire" /\ m_pc' = "check"
               /\ current_time - connection_last_ping[i] > connection_timeout]_vars

\* A was tracked when a sweep looked, was closed by a disconnected signal,
\* and a ping handled at this instant has put it back: no sweep has run
\* since, as the monitor's sleep is over and no time has passed
C18_Witness ==
    /\ log = Line("Reconnected via ping", "-", "A")
    /\ "A" \in active_connections /\ connection_last_ping["A"] = now
    /\ had_connections /\ m_pc = "sleep" /\ sleep_left = 0

\* C19: whenever connection_lock is not held, active_connections is the key
\* set of connection_last_ping and every stored last ping time is positive.
C19_RegistryConsistent ==
    connection_lock = "free"
      => /\ active_connections = DOMAIN connection_last_ping
         /\ \A k \in DOMAIN connection_last_ping : connection_last_ping[k] > 0

\* the disconnected signal of A has just been handled and the lock released:
\* A had been tracked and neither the id nor its last ping time is left
C19_Witness ==
    /\ connection_lock = "free"
    /\ log = Line("Connection closed", "-", "A")
    /\ accept_time["A"] > 0
    /\ active_connections = {} /\ DOMAIN connection_last_ping = {}

TypeOK ==
    /\ now \in Instants
    /\ active_connections \subseteq Ids
    /\ DOMAIN connection_last_ping \subseteq Ids
    /\ exits \in 0..1

====
